---------------------------- MODULE Spec2Model ----------------------------
(***************************************************************************)
(* A model of src/src/index.ts: the get_iris_routine tool handler (the     *)
(* candidate walk with its bounded retry) and buildRoutineDocCandidates.   *)
(*                                                                         *)
(* Strings are sequences of one-character strings, so that trim, the       *)
(* case-insensitive suffix tests, the suffix replacement and               *)
(* encodeURIComponent are computed character by character.                 *)
(***************************************************************************)
EXTENDS Integers, Sequences, FiniteSets, TLC

VARIABLES
    pc,           \* position of the handler: idle, await, backoff, done, threw
    inputName,    \* the tool argument `name`
    namespaceArg, \* the tool argument `namespace` (None when omitted)
    candidates,   \* const candidates = buildRoutineDocCandidates(name)
    ci,           \* index in candidates of the candidate of the outer for loop
    attempt,      \* the inner loop's counter
    tried,        \* the handler's `tried` array
    requests,     \* the client.get calls issued so far, each with its outcome
    slept,        \* the sleep(250) calls made so far (the candidate each was for)
    result,       \* what the handler returned
    server,       \* the process: its phase, the connection check, the tools, the transport
    fnIn,         \* the argument of a call of one of the normalizer's functions
    fnOut         \* what that call returned

vars == <<pc, inputName, namespaceArg, candidates, ci, attempt, tried, requests,
          slept, result, server, fnIn, fnOut>>

-----------------------------------------------------------------------------
(* Bounds of the model and constants of the program. *)

\* Longest run of white space put before and after a name by the resolver inputs.
MaxPad == 1

\* for (let attempt = 0; attempt < 2; attempt++)
MaxAttempts == 2

\* await sleep(250)
BackoffMs == 250

\* .slice(0, 400)
SnippetLimit == 400

\* Most elements of an array given to formatMarkdownTable.
MaxRows == 3

\* Most characters of a cell given to escapeMarkdownCell.
MaxCellLen == 3

-----------------------------------------------------------------------------
(* Strings. *)

Range(s) == { s[i] : i \in 1..Len(s) }

\* A lone surrogate: a UTF-16 code unit a JavaScript string may hold and that
\* encodeURIComponent rejects with a URIError.
LoneSurrogate == "\\uD800"

\* The characters String.prototype.trim removes (those the model uses).
IsWhiteSpace(c) == c \in {" ", "\t"}

\* The canonicalisation the /i flag compares characters under.
ToLower(c) ==
    CASE c = "C" -> "c" [] c = "L" -> "l" [] c = "S" -> "s"
      [] c = "I" -> "i" [] c = "N" -> "n" [] c = "T" -> "t"
      [] c = "M" -> "m" [] c = "A" -> "a" [] c = "B" -> "b"
      [] OTHER -> c

RECURSIVE trimStart(_)
trimStart(s) ==
    IF s # <<>> /\ IsWhiteSpace(Head(s)) THEN trimStart(Tail(s)) ELSE s

RECURSIVE trimEnd(_)
trimEnd(s) ==
    IF s # <<>> /\ IsWhiteSpace(s[Len(s)])
    THEN trimEnd(SubSeq(s, 1, Len(s) - 1))
    ELSE s

\* String.prototype.trim
trim(s) == trimEnd(trimStart(s))

\* /<ext>$/i.test(s), for a literal lower-case ext
TestSuffixCI(s, ext) ==
    /\ Len(s) >= Len(ext)
    /\ \A i \in 1..Len(ext) : ToLower(s[Len(s) - Len(ext) + i]) = ext[i]

\* s.replace(/<ext>$/i, to), for an s the test above accepts
ReplaceSuffix(s, ext, to) == SubSeq(s, 1, Len(s) - Len(ext)) \o to

DotCls  == <<".", "c", "l", "s">>
DotInt  == <<".", "i", "n", "t">>
DotMac  == <<".", "m", "a", "c">>
DotInc  == <<".", "i", "n", "c">>
DotOneInt == <<".", "1", ".", "i", "n", "t">>

-----------------------------------------------------------------------------
(* buildRoutineDocCandidates *)

\* const add = (v) => { ... }: out and seen always hold the same strings.
add(out, v) ==
    LET vv == trim(v)
    IN  IF vv = <<>> THEN out
        ELSE IF vv \in Range(out) THEN out
        ELSE Append(out, vv)

IsClassName(name) == TestSuffixCI(name, DotCls)

IsRoutineName(name) ==
    TestSuffixCI(name, DotInt) \/ TestSuffixCI(name, DotMac) \/ TestSuffixCI(name, DotInc)

\* A faulty variant: the class branch also adds the name as given.
ClassCandidates_withVerbatim(name) ==
    add(add(add(<<>>, ReplaceSuffix(name, DotCls, DotOneInt)),
            ReplaceSuffix(name, DotCls, DotInt)), name)

ClassCandidates(name) ==
    add(add(<<>>, ReplaceSuffix(name, DotCls, DotOneInt)),
        ReplaceSuffix(name, DotCls, DotInt))

\* A faulty variant: a routine name is completed like a bare name.
RoutineCandidates_completed(name) == add(add(<<>>, name \o DotInt), name)

RoutineCandidates(name) == add(<<>>, name)

\* Faulty variants: the verbatim name comes first; only the verbatim name is tried.
BareCandidates_verbatimFirst(name) ==
    add(add(add(<<>>, name), name \o DotOneInt), name \o DotInt)

BareCandidates_verbatimOnly(name) == add(<<>>, name)

BareCandidates(name) ==
    add(add(add(<<>>, name \o DotOneInt), name \o DotInt), name)

buildRoutineDocCandidates(input) ==
    LET name == trim(input)
    IN  IF IsClassName(name) THEN ClassCandidates(name)
        ELSE IF IsRoutineName(name) THEN RoutineCandidates(name)
        ELSE BareCandidates(name)

-----------------------------------------------------------------------------
(* The tool's inputs and the backend's answers. *)

None == <<"undefined">>

\* env.IRIS_NAMESPACE
EnvNamespace == <<"U", "S", "E", "R">>

\* The optional `namespace` argument: omitted, or a namespace that needs escaping.
NamespaceArgs == { None, <<"%", "S", "Y", "S">> }

Pad(n) == [i \in 1..n |-> " "]

\* The `name` arguments of the walk: z.string().min(1), so never empty.
WalkInputs ==
    { <<"A">>,
      <<" ", "A", ".", "B", " ">>,
      <<"A", ".", "c", "l", "s">>,
      <<"A", ".", "C", "L", "S", " ">>,
      <<"A", ".", "I", "n", "t">>,
      <<"A", ".", "m", "a", "c">>,
      <<".", "c", "l", "s">>,
      <<" ">>,
      <<"A", " ", "B">>,
      <<"A", "\n", "B", ".", "c", "l", "s">>,
      <<LoneSurrogate, ".", "c", "l", "s">> }

\* encodeURIComponent throws a URIError on a string with a lone surrogate.
IsWellFormed(s) == LoneSurrogate \notin Range(s)

EncodeChar(c) ==
    CASE c = " "  -> <<"%", "2", "0">>
      [] c = "\t" -> <<"%", "0", "9">>
      [] c = "\n" -> <<"%", "0", "A">>
      [] c = "%"  -> <<"%", "2", "5">>
      [] c = "/"  -> <<"%", "2", "F">>
      [] OTHER    -> <<c>>

RECURSIVE encodeURIComponent(_)
encodeURIComponent(s) ==
    IF s = <<>> THEN <<>> ELSE EncodeChar(Head(s)) \o encodeURIComponent(Tail(s))

\* const resolvedNamespace = namespace ?? env.IRIS_NAMESPACE
ResolvedNamespace(ns) == IF ns = None THEN EnvNamespace ELSE ns

\* A faulty variant: the url names the document directory, not the candidate.
DocUrl_noCandidate(ns, candidate) ==
    <<"/api/atelier/v1/">> \o encodeURIComponent(ns) \o <<"/doc/">>

\* `/api/atelier/v1/${encodeURIComponent(ns)}/doc/${encodeURIComponent(candidate)}`
DocUrl(ns, candidate) ==
    <<"/api/atelier/v1/">> \o encodeURIComponent(ns) \o <<"/doc/">>
        \o encodeURIComponent(candidate)

\* The codes isLikelyNetworkMisconfig lists.
NetworkCodes ==
    { "ECONNREFUSED", "ETIMEDOUT", "ESOCKETTIMEDOUT", "ENOTFOUND", "EAI_AGAIN",
      "ECONNRESET", "EHOSTUNREACH", "ENETUNREACH" }

\* Codes of failures without a response that the list does not hold.
OtherCodes == { "ECONNABORTED", "" }

HttpStatuses == { 400, 401, 403, 404, 429, 500, 502, 503, 504 }

NoData == [wrapped |-> FALSE, named |-> FALSE, hasContent |-> FALSE, lines |-> <<>>]

\* Bodies of a 2xx answer: { result: { name, cat, content } }, the same without
\* the result wrapper, and a body without a content array.
DocBodies ==
    { [wrapped |-> TRUE,  named |-> TRUE,  hasContent |-> TRUE,
       lines |-> << <<"l", "1">>, <<"l", "2">> >>],
      [wrapped |-> FALSE, named |-> FALSE, hasContent |-> TRUE,
       lines |-> << <<"l", "1">> >>],
      [wrapped |-> TRUE,  named |-> TRUE,  hasContent |-> FALSE, lines |-> <<>>] }

Pending ==
    [kind |-> "pending", axios |-> FALSE, hasResponse |-> FALSE, status |-> 0,
     code |-> "", data |-> NoData]

Ok(data) ==
    [kind |-> "ok", axios |-> FALSE, hasResponse |-> TRUE, status |-> 200,
     code |-> "", data |-> data]

HttpError(status) ==
    [kind |-> "err", axios |-> TRUE, hasResponse |-> TRUE, status |-> status,
     code |-> IF status < 500 THEN "ERR_BAD_REQUEST" ELSE "ERR_BAD_RESPONSE",
     data |-> NoData]

NoResponseError(code) ==
    [kind |-> "err", axios |-> TRUE, hasResponse |-> FALSE, status |-> 0,
     code |-> code, data |-> NoData]

NonAxiosError ==
    [kind |-> "err", axios |-> FALSE, hasResponse |-> FALSE, status |-> 0,
     code |-> "", data |-> NoData]

Errors ==
    { HttpError(s) : s \in HttpStatuses }
        \cup { NoResponseError(c) : c \in NetworkCodes \cup OtherCodes }
        \cup { NonAxiosError }

-----------------------------------------------------------------------------
(* The classification of a failed lookup. *)

isAxiosError(err) == err.axios

\* A faulty variant: ECONNRESET is missing from the list.
isLikelyNetworkMisconfig_noReset(err) ==
    IF ~isAxiosError(err) THEN FALSE
    ELSE IF err.hasResponse THEN FALSE
    ELSE err.code \in NetworkCodes \ {"ECONNRESET"}

isLikelyNetworkMisconfig(err) ==
    IF ~isAxiosError(err) THEN FALSE
    ELSE IF err.hasResponse THEN FALSE
    ELSE err.code \in NetworkCodes

\* A faulty variant: every 5xx status is retried.
shouldRetryOnce_any5xx(err) ==
    IF ~isAxiosError(err) THEN FALSE
    ELSE err.hasResponse /\ err.status >= 500

shouldRetryOnce(err) ==
    IF ~isAxiosError(err) THEN FALSE
    ELSE err.hasResponse /\ err.status \in {502, 503, 504}

\* A faulty variant: the retry is not limited to the first attempt.
MayRetry_anyAttempt(n, err) == shouldRetryOnce(err)

\* A faulty variant: the first attempt is retried whatever the failure.
MayRetry_anyStatus(n, err) == n = 0

\* if (attempt === 0 && shouldRetryOnce(err))
MayRetry(n, err) == n = 0 /\ shouldRetryOnce(err)

\* Faulty variants: 400 is not taken as "not found"; 403 is.
IsNotFoundStatus_404Only(err) == err.hasResponse /\ err.status = 404

IsNotFoundStatus_with403(err) == err.hasResponse /\ err.status \in {400, 403, 404}

\* if (status === 400 || status === 404) break;
IsNotFoundStatus(err) == err.hasResponse /\ err.status \in {400, 404}

\* A faulty variant: 403 is not taken as an auth failure.
IsAuthStatus_401Only(err) == err.hasResponse /\ err.status = 401

\* if (status === 401 || status === 403) { return ... }
IsAuthStatus(err) == err.hasResponse /\ err.status \in {401, 403}

-----------------------------------------------------------------------------
(* The texts the handler returns.  A text is a string: a sequence of        *)
(* characters in which "\n" ends a line.  A fixed phrase of a message is    *)
(* written as one element (the source's phrases are Chinese; the model      *)
(* names them in English).                                                  *)

NL == "\n"

\* lines.join("\n")
RECURSIVE JoinLines(_)
JoinLines(lines) ==
    IF lines = <<>> THEN <<>>
    ELSE IF Len(lines) = 1 THEN lines[1]
    ELSE lines[1] \o <<NL>> \o JoinLines(Tail(lines))

\* The summary extractVersionInfo gives of a body (its text is not modelled).
Snippet == <<"extractVersionInfo(body)">>

StatusText(err) == IF err.hasResponse THEN ToString(err.status) ELSE "unknown"

\* Lines 315-322: the header names the document, the content lines follow.
SuccessText(data, candidate) ==
    LET docName == IF data.named THEN <<"result.name">> ELSE candidate
        header  == <<"[IRIS routine] name=">> \o docName \o <<" cat=">>
                     \o (IF data.named THEN <<"result.cat">> ELSE <<"unknown">>)
    IN  IF data.hasContent
        THEN header \o <<NL>> \o JoinLines(data.lines)
        ELSE header \o <<NL>> \o Snippet

\* Lines 329-335.
ConnectivityText(err) ==
    <<"Cannot connect to IRIS">>
        \o (IF err.code # "" THEN <<" (", err.code, ")">> ELSE <<>>)
        \o <<". Check IRIS_URL/port, network and Basic Auth.">>
        \o <<NL, "- IRIS_URL: ", "env.IRIS_URL">>
        \o <<NL, "- try: ", "normalizeBaseUrl(env.IRIS_URL)", "/api/atelier/">>

\* Lines 347-350.
AuthText(err) ==
    <<"Authentication/permission failure (HTTP ", StatusText(err), ").", NL>> \o Snippet

\* Lines 359-362.
HttpFailureText(err) ==
    <<"Fetching the routine failed (HTTP ", StatusText(err), ").", NL>> \o Snippet

\* Line 366.
GenericFailureText == <<"Fetching the routine failed: ", "String(err)">>

\* const list = candidates.map((c) => `- ${c}`).join("\n")
NotFoundList(cands, triedRecords) ==
    JoinLines([i \in 1..Len(cands) |-> <<"-", " ">> \o cands[i]])

\* Lines 372-382.
NotFoundText(cands, triedRecords, ns) ==
    <<"Routine document not found.", NL, "Names tried:", NL>>
        \o NotFoundList(cands, triedRecords)
        \o <<NL, NL, "Please confirm:", NL, "- the class is compiled (*.1.int)", NL>>
        \o <<"- the namespace is right: ">> \o ns

NoResult == [kind |-> "none", text |-> <<>>]

Returned(kind, text) == [kind |-> kind, text |-> text]

-----------------------------------------------------------------------------
(* The get_iris_routine handler, lines 299-383. *)

ToolNames == {"get_iris_routine", "execute_iris_sql"}

\* The process once main() has run to its end: the check succeeded, both tools
\* are registered, the transport is connected.
Serving ==
    [phase |-> "serving", check |-> "ok", tools |-> ToolNames, connected |-> TRUE]

\* The host can call a tool that is registered on a connected transport.
CanInvoke(tool) == server.connected /\ tool \in server.tools

Init ==
    /\ pc = "idle"
    /\ inputName = <<>>
    /\ namespaceArg = None
    /\ candidates = <<>>
    /\ ci = 0
    /\ attempt = 0
    /\ tried = <<>>
    /\ requests = <<>>
    /\ slept = <<>>
    /\ result = NoResult
    /\ server = Serving
    /\ fnIn = None
    /\ fnOut = None

Request(ns, candidate, n) ==
    [url |-> DocUrl(ns, candidate), candidate |-> candidate, attempt |-> n,
     resp |-> Pending]

\* The answer to the request in flight is recorded with the request.
Answered(resp) == [requests EXCEPT ![Len(requests)].resp = resp]

\* An iteration of the outer for loop over cands starts at index i, or the loop is
\* over: the url is built (line 307, outside the try) and the first client.get
\* of the candidate is issued; past the last candidate the not-found text is
\* returned (lines 371-382).
EnterCandidate(cands, i, nsArg, reqs, triedRecords) ==
    LET ns == ResolvedNamespace(nsArg)
    IN  IF i > Len(cands)
        THEN /\ pc' = "done"
             /\ result' = Returned("notfound", NotFoundText(cands, triedRecords, ns))
             /\ requests' = reqs
             /\ UNCHANGED <<ci, attempt>>
        ELSE IF ~IsWellFormed(ns) \/ ~IsWellFormed(cands[i])
        THEN /\ pc' = "threw"
             /\ ci' = i
             /\ attempt' = 0
             /\ requests' = reqs
             /\ UNCHANGED result
        ELSE /\ pc' = "await"
             /\ ci' = i
             /\ attempt' = 0
             /\ requests' = Append(reqs, Request(ns, cands[i], 0))
             /\ UNCHANGED result

\* The host calls the tool: lines 300-307 and the first client.get.
Invoke ==
    /\ pc = "idle"
    /\ CanInvoke("get_iris_routine")
    /\ \E name \in WalkInputs, ns \in NamespaceArgs :
        /\ inputName' = name
        /\ namespaceArg' = ns
        /\ candidates' = buildRoutineDocCandidates(name)
        /\ tried' = <<>>
        /\ EnterCandidate(buildRoutineDocCandidates(name), 1, ns, requests, <<>>)
    /\ UNCHANGED slept
    /\ UNCHANGED <<server, fnIn, fnOut>>

\* A faulty variant: the success branch does not return, the walk goes on.
LookupSucceeds_goesOn ==
    /\ pc = "await"
    /\ \E data \in DocBodies :
        EnterCandidate(candidates, ci + 1, namespaceArg, Answered(Ok(data)), tried)
    /\ UNCHANGED <<inputName, namespaceArg, candidates, tried, slept>>
    /\ UNCHANGED <<server, fnIn, fnOut>>

\* Lines 313-325: a 2xx answer; the handler returns the document.
LookupSucceeds ==
    /\ pc = "await"
    /\ \E data \in DocBodies :
        /\ requests' = Answered(Ok(data))
        /\ result' = Returned("success", SuccessText(data, candidates[ci]))
    /\ pc' = "done"
    /\ UNCHANGED <<inputName, namespaceArg, candidates, ci, attempt, tried, slept>>
    /\ UNCHANGED <<server, fnIn, fnOut>>

\* Lines 327-336: no response and a code of the list; the handler returns the hint.
NetworkMisconfig ==
    /\ pc = "await"
    /\ \E err \in Errors :
        /\ isLikelyNetworkMisconfig(err)
        /\ requests' = Answered(err)
        /\ result' = Returned("connectivity", ConnectivityText(err))
    /\ pc' = "done"
    /\ UNCHANGED <<inputName, namespaceArg, candidates, ci, attempt, tried, slept>>
    /\ UNCHANGED <<server, fnIn, fnOut>>

\* tried.push({ name: candidate, status, message: err.message })
Tried(err) == Append(tried, [name |-> candidates[ci], status |-> err.status])

\* Lines 338-343: HTTP 400 or 404; break, and the outer loop goes on.
CandidateNotFound ==
    /\ pc = "await"
    /\ \E err \in Errors :
        /\ ~isLikelyNetworkMisconfig(err)
        /\ isAxiosError(err)
        /\ IsNotFoundStatus(err)
        /\ tried' = Tried(err)
        /\ EnterCandidate(candidates, ci + 1, namespaceArg, Answered(err), Tried(err))
    /\ UNCHANGED <<inputName, namespaceArg, candidates, slept>>
    /\ UNCHANGED <<server, fnIn, fnOut>>

\* Lines 345-351: HTTP 401 or 403.
AuthFailure ==
    /\ pc = "await"
    /\ \E err \in Errors :
        /\ ~isLikelyNetworkMisconfig(err)
        /\ isAxiosError(err)
        /\ ~IsNotFoundStatus(err)
        /\ IsAuthStatus(err)
        /\ tried' = Tried(err)
        /\ requests' = Answered(err)
        /\ result' = Returned("auth", AuthText(err))
    /\ pc' = "done"
    /\ UNCHANGED <<inputName, namespaceArg, candidates, ci, attempt, slept>>
    /\ UNCHANGED <<server, fnIn, fnOut>>

\* Lines 353-357: a transient status on the first attempt; sleep, then continue.
TransientRetry ==
    /\ pc = "await"
    /\ \E err \in Errors :
        /\ ~isLikelyNetworkMisconfig(err)
        /\ isAxiosError(err)
        /\ ~IsNotFoundStatus(err)
        /\ ~IsAuthStatus(err)
        /\ MayRetry(attempt, err)
        /\ tried' = Tried(err)
        /\ requests' = Answered(err)
    /\ slept' = Append(slept, [candidate |-> candidates[ci], ms |-> BackoffMs])
    /\ pc' = "backoff"
    /\ UNCHANGED <<inputName, namespaceArg, candidates, ci, attempt, result>>
    /\ UNCHANGED <<server, fnIn, fnOut>>

\* The sleep is over: attempt++, and while attempt < 2 the lookup is issued again;
\* otherwise the inner loop ends and the outer loop goes on.
BackoffElapsed ==
    /\ pc = "backoff"
    /\ IF attempt + 1 < MaxAttempts
       THEN /\ attempt' = attempt + 1
            /\ requests' = Append(requests,
                   Request(ResolvedNamespace(namespaceArg), candidates[ci], attempt + 1))
            /\ pc' = "await"
            /\ UNCHANGED <<ci, result>>
       ELSE EnterCandidate(candidates, ci + 1, namespaceArg, requests, tried)
    /\ UNCHANGED <<inputName, namespaceArg, candidates, tried, slept>>
    /\ UNCHANGED <<server, fnIn, fnOut>>

\* Lines 359-362: every other failure axios reports.
HttpFailure ==
    /\ pc = "await"
    /\ \E err \in Errors :
        /\ ~isLikelyNetworkMisconfig(err)
        /\ isAxiosError(err)
        /\ ~IsNotFoundStatus(err)
        /\ ~IsAuthStatus(err)
        /\ ~MayRetry(attempt, err)
        /\ tried' = Tried(err)
        /\ requests' = Answered(err)
        /\ result' = Returned("http", HttpFailureText(err))
    /\ pc' = "done"
    /\ UNCHANGED <<inputName, namespaceArg, candidates, ci, attempt, slept>>
    /\ UNCHANGED <<server, fnIn, fnOut>>

\* Lines 365-366: an error that is not an axios error.
NonAxiosFailure ==
    /\ pc = "await"
    /\ \E err \in Errors :
        /\ ~isLikelyNetworkMisconfig(err)
        /\ ~isAxiosError(err)
        /\ requests' = Answered(err)
        /\ result' = Returned("generic", GenericFailureText)
    /\ pc' = "done"
    /\ UNCHANGED <<inputName, namespaceArg, candidates, ci, attempt, tried, slept>>
    /\ UNCHANGED <<server, fnIn, fnOut>>

Next ==
    \/ Invoke
    \/ LookupSucceeds
    \/ NetworkMisconfig
    \/ CandidateNotFound
    \/ AuthFailure
    \/ TransientRetry
    \/ BackoffElapsed
    \/ HttpFailure
    \/ NonAxiosFailure

Spec == Init /\ [][Next]_vars

-----------------------------------------------------------------------------
(* buildRoutineDocCandidates on its own: one call on an input name. *)

Stems ==
    { <<>>, <<"A">>, <<"A", ".", "B">>, <<"A", " ">>, <<"a", ".", "c", "l", "s">>,
      <<"A", ".", "i", "n", "t">>, <<"1">> }

Extensions ==
    { <<>>,
      <<".", "c", "l", "s">>, <<".", "C", "L", "S">>, <<".", "C", "l", "s">>,
      <<".", "i", "n", "t">>, <<".", "I", "N", "T">>,
      <<".", "m", "a", "c">>, <<".", "M", "a", "c">>,
      <<".", "i", "n", "c">>, <<".", "1", ".", "i", "n", "t">>,
      <<"c", "l", "s">>, <<".", "c", "l">> }

\* Every stem with every extension, padded with white space on both sides;
\* the empty string is no input (z.string().min(1)).
ResolverInputs ==
    { Pad(i) \o stem \o ext \o Pad(j) :
        i \in 0..MaxPad, j \in 0..MaxPad, stem \in Stems, ext \in Extensions }
        \ { <<>> }

Resolve ==
    /\ pc = "idle"
    /\ \E name \in ResolverInputs :
        /\ inputName' = name
        /\ candidates' = buildRoutineDocCandidates(name)
    /\ pc' = "resolved"
    /\ UNCHANGED <<namespaceArg, ci, attempt, tried, requests, slept, result>>
    /\ UNCHANGED <<server, fnIn, fnOut>>

NextResolver == Resolve

SpecResolver == Init /\ [][NextResolver]_vars

-----------------------------------------------------------------------------
(* What the properties below read off the state. *)

Lookups == 1..Len(requests)

IsLastLookup(i) == i = Len(requests)

\* The lookup i was answered with an HTTP error of one of these statuses.
FailedWith(i, statuses) ==
    /\ requests[i].resp.kind = "err"
    /\ requests[i].resp.hasResponse
    /\ requests[i].resp.status \in statuses

Succeeded(i) == requests[i].resp.kind = "ok"

\* The number of lookups of a candidate name.
LookupsOf(c) == Cardinality({ i \in Lookups : requests[i].candidate = c })

\* The position of a candidate name in the list.
IndexOf(c) == CHOOSE k \in 1..Len(candidates) : candidates[k] = c

\* The lookup i ended the walk, with a result of one of these kinds.
EndedWalk(i, kinds) ==
    /\ IsLastLookup(i)
    /\ pc = "done"
    /\ result.kind \in kinds

-----------------------------------------------------------------------------
\* C1: a lookup that fails with HTTP 400 or 404 is the last lookup of its
\* candidate, and the next lookup, if the list has a next candidate, is the first
\* attempt of that next candidate; with 404 for the first two candidates and a
\* success for the third, the handler returns the third candidate's document
\* after exactly three lookups, one per candidate.
C1_NotFoundAdvances ==
    /\ \A i \in Lookups :
        FailedWith(i, {400, 404}) =>
            LET c == requests[i].candidate
                k == IndexOf(c)
            IN  /\ \A j \in Lookups : j > i => requests[j].candidate # c
                /\ IF k < Len(candidates)
                   THEN /\ i < Len(requests)
                        /\ requests[i + 1].candidate = candidates[k + 1]
                        /\ requests[i + 1].attempt = 0
                   ELSE IsLastLookup(i)
    /\ ( /\ Len(candidates) = 3
         /\ Len(requests) >= 3
         /\ FailedWith(1, {404})
         /\ FailedWith(2, {404})
         /\ Succeeded(3) )
       => /\ Len(requests) = 3
          /\ \A k \in 1..3 : requests[k].candidate = candidates[k]
          /\ LookupsOf(candidates[1]) = 1
          /\ LookupsOf(candidates[2]) = 1
          /\ result = Returned("success",
                               SuccessText(requests[3].resp.data, candidates[3]))

C1_Witness ==
    /\ Len(candidates) = 3
    /\ Len(requests) = 3
    /\ FailedWith(1, {404})
    /\ FailedWith(2, {404})
    /\ Succeeded(3)
    /\ pc = "done"

\* C2: a lookup that fails with HTTP 502, 503 or 504 on the first attempt is
\* followed, after one backoff, by exactly one more lookup of the same candidate;
\* on the second attempt it ends the walk with the generic HTTP-failure message,
\* so that 503 twice on the first candidate makes 2 lookups in total.
C2_TransientRetriedOnce ==
    \A i \in Lookups :
        FailedWith(i, {502, 503, 504}) =>
            LET c == requests[i].candidate
            IN  IF requests[i].attempt = 0
                THEN /\ \E n \in 1..Len(slept) : slept[n].candidate = c
                     /\ \/ IsLastLookup(i) /\ pc = "backoff"
                        \/ /\ i < Len(requests)
                           /\ requests[i + 1].candidate = c
                           /\ requests[i + 1].url = requests[i].url
                           /\ requests[i + 1].attempt = 1
                           /\ LookupsOf(c) = 2
                ELSE /\ EndedWalk(i, {"http"})
                     /\ result.text = HttpFailureText(requests[i].resp)
                     /\ LookupsOf(c) = 2

C2_Witness ==
    /\ Len(candidates) = 3
    /\ Len(requests) = 2
    /\ FailedWith(1, {503})
    /\ FailedWith(2, {503})
    /\ requests[2].candidate = candidates[1]
    /\ pc = "done"

\* The causes the claim C3 names: connection refused or reset, timeout, DNS
\* failure, unreachable host or network.
ConnectivityCauses ==
    { "ECONNREFUSED", "ECONNRESET", "ETIMEDOUT", "ESOCKETTIMEDOUT", "ENOTFOUND",
      "EAI_AGAIN", "EHOSTUNREACH", "ENETUNREACH" }

ConnectivityFailure(i) ==
    /\ requests[i].resp.kind = "err"
    /\ requests[i].resp.axios
    /\ ~requests[i].resp.hasResponse
    /\ requests[i].resp.code \in ConnectivityCauses

C4_AuthAborts ==
    \A i \in Lookups :
        FailedWith(i, {401, 403}) =>
            /\ EndedWalk(i, {"auth"})
            /\ result.text = AuthText(requests[i].resp)

C4_Witness ==
    /\ Len(requests) = 3
    /\ requests[3].candidate = candidates[2]
    /\ requests[3].attempt = 1
    /\ FailedWith(3, {403})
    /\ pc = "done"

\* C5: a lookup that succeeds is the last lookup of the walk, and the handler
\* returns the text made of the document that lookup found for its candidate.
C5_FirstSuccessEndsWalk ==
    \A i \in Lookups :
        Succeeded(i) =>
            /\ EndedWalk(i, {"success"})
            /\ requests[i].candidate = candidates[ci]
            /\ result.text = SuccessText(requests[i].resp.data, requests[i].candidate)

C5_Witness ==
    /\ Len(candidates) = 3
    /\ Len(requests) = 1
    /\ Succeeded(1)
    /\ requests[1].resp.data.hasContent
    /\ pc = "done"

\* A failure that is none of: a connectivity failure, HTTP 400/404, 401/403,
\* 502/503/504.
OtherFailure(i) ==
    /\ requests[i].resp.kind = "err"
    /\ ~ConnectivityFailure(i)
    /\ ~FailedWith(i, {400, 404, 401, 403, 502, 503, 504})

\* C6: every other failure of a lookup (HTTP 500 or 429, a failure without a
\* response and without a connectivity cause, an error that is no HTTP-client
\* error) is the last lookup of the walk, and the handler returns a generic
\* failure message.
C6_OtherFailureAborts ==
    \A i \in Lookups :
        OtherFailure(i) =>
            /\ EndedWalk(i, {"http", "generic"})
            /\ result.text \in {HttpFailureText(requests[i].resp), GenericFailureText}

C6_Witness ==
    /\ Len(candidates) = 3
    /\ Len(requests) = 1
    /\ FailedWith(1, {500})
    /\ pc = "done"

\* Every candidate of the list was looked up, and the last lookup of each ended
\* in HTTP 400 or 404.
AllCandidatesNotFound ==
    \A k \in 1..Len(candidates) :
        \E i \in Lookups :
            /\ requests[i].candidate = candidates[k]
            /\ FailedWith(i, {400, 404})
            /\ \A j \in Lookups : j > i => requests[j].candidate # candidates[k]

\* C7: the handler returns the not-found result exactly when every candidate was
\* looked up and the last lookup of each ended in 400 or 404; every other
\* return is a success, connectivity, auth or generic-failure result.
C7_NotFoundIffExhausted ==
    /\ pc = "done" =>
        /\ result.kind = "notfound" <=> AllCandidatesNotFound
        /\ result.kind \in {"notfound", "success", "connectivity", "auth", "http", "generic"}
    /\ pc # "done" => result.kind = "none"

C7_Witness ==
    /\ pc = "done"
    /\ result.kind = "notfound"
    /\ Len(candidates) = 3
    /\ Len(requests) = 4

-----------------------------------------------------------------------------
(* The lines of a text. *)

RECURSIVE FirstLine(_)
FirstLine(text) ==
    IF text = <<>> \/ Head(text) = NL THEN <<>>
    ELSE <<Head(text)>> \o FirstLine(Tail(text))

\* text.split("\n")
RECURSIVE SplitLines(_)
SplitLines(text) ==
    LET first == FirstLine(text)
    IN  IF Len(first) = Len(text) THEN <<first>>
        ELSE <<first>> \o SplitLines(SubSeq(text, Len(first) + 2, Len(text)))

\* The lines of the not-found text between the line "Names tried:" and the
\* empty line that ends the list.
ListBlock(text) ==
    LET lines == SplitLines(text)
        stop  == CHOOSE n \in 3..Len(lines) :
                    lines[n] = <<>> /\ \A m \in 3..(n - 1) : lines[m] # <<>>
    IN  SubSeq(lines, 3, stop - 1)

HasDash(line) == Len(line) >= 2 /\ line[1] = "-" /\ line[2] = " "

\* The candidate names in the order of their first lookup.
RECURSIVE AttemptedNames(_)
AttemptedNames(reqs) ==
    IF reqs = <<>> THEN <<>>
    ELSE LET rest == AttemptedNames(SubSeq(reqs, 1, Len(reqs) - 1))
             c    == reqs[Len(reqs)].candidate
         IN  IF c \in Range(rest) THEN rest ELSE Append(rest, c)

\* C8: in the not-found result every line of the list is a dash, a space and a
\* name, and the names so listed are the candidate names that were looked up,
\* in the order of their lookups.
C8_ListsAttemptedNames ==
    result.kind = "notfound" =>
        LET block == ListBlock(result.text)
        IN  /\ \A n \in 1..Len(block) : HasDash(block[n])
            /\ [n \in 1..Len(block) |-> SubSeq(block[n], 3, Len(block[n]))]
                   = AttemptedNames(requests)

\* C9 as stated: in a walk that ends in the not-found result no url is requested
\* more than once.
C9_NoUrlTwice ==
    result.kind = "notfound" =>
        \A i, j \in Lookups : i # j => requests[i].url # requests[j].url

\* C9, amended: in a walk that ends in the not-found result a url is requested
\* twice only as the one retry that follows a first attempt answered with 502,
\* 503 or 504, and never three times; two candidates never share a url.
C9_UrlTwiceOnlyAsRetry ==
    result.kind = "notfound" =>
        \A i, j \in Lookups :
            (i < j /\ requests[i].url = requests[j].url) =>
                /\ j = i + 1
                /\ requests[i].candidate = requests[j].candidate
                /\ requests[i].attempt = 0
                /\ requests[j].attempt = 1
                /\ FailedWith(i, {502, 503, 504})

C9_Witness ==
    /\ result.kind = "notfound"
    /\ Len(candidates) = 3
    /\ \E i \in Lookups : i < Len(requests) /\ requests[i].url = requests[i + 1].url

\* The spellings of the class extension.
ClsSpellings ==
    { <<".", c, l, z>> : c \in {"c", "C"}, l \in {"l", "L"}, z \in {"s", "S"} }

\* C10: for an input whose trimmed form ends in ".cls" in any letter case the
\* candidates are exactly two: the name with the extension replaced by ".1.int",
\* then the name with it replaced by ".int".
C10_ClassNameCandidates ==
    pc = "resolved" =>
        LET t == trim(inputName)
        IN  (Len(t) >= 4 /\ SubSeq(t, Len(t) - 3, Len(t)) \in ClsSpellings) =>
                candidates =
                    << SubSeq(t, 1, Len(t) - 4) \o <<".", "1", ".", "i", "n", "t">>,
                       SubSeq(t, 1, Len(t) - 4) \o <<".", "i", "n", "t">> >>

C10_Witness ==
    /\ pc = "resolved"
    /\ inputName = <<" ", "A", ".", "B", ".", "C", "l", "s", " ">>
    /\ candidates = << <<"A", ".", "B", ".", "1", ".", "i", "n", "t">>,
                       <<"A", ".", "B", ".", "i", "n", "t">> >>

-----------------------------------------------------------------------------
(* The extensions as the claims on the resolver spell them. *)

Upper(c) ==
    CASE c = "c" -> "C" [] c = "l" -> "L" [] c = "s" -> "S" [] c = "i" -> "I"
      [] c = "n" -> "N" [] c = "t" -> "T" [] c = "m" -> "M" [] c = "a" -> "A"
      [] OTHER -> c

\* t ends in ext, written in any letter case.
EndsIn(t, ext) ==
    /\ Len(t) >= Len(ext)
    /\ \A i \in 1..Len(ext) :
        t[Len(t) - Len(ext) + i] \in {ext[i], Upper(ext[i])}

EndsInRoutineExtension(t) ==
    \/ EndsIn(t, <<".", "i", "n", "t">>)
    \/ EndsIn(t, <<".", "m", "a", "c">>)
    \/ EndsIn(t, <<".", "i", "n", "c">>)

IsBareName(t) == ~EndsIn(t, <<".", "c", "l", "s">>) /\ ~EndsInRoutineExtension(t)

ThreeShapes(t) ==
    << t \o <<".", "1", ".", "i", "n", "t">>, t \o <<".", "i", "n", "t">>, t >>

\* C11 as stated: for every input whose trimmed form ends in none of .cls, .int,
\* .mac, .inc the candidates are the name with .1.int, the name with .int, the name.
C11_BareNameThreeCandidates ==
    pc = "resolved" =>
        LET t == trim(inputName)
        IN  IsBareName(t) => candidates = ThreeShapes(t)

\* C11, amended: the same for every such input whose trimmed form is not empty;
\* for an input of white space only the candidates are ".1.int", then ".int".
C11_BareNameCandidates ==
    pc = "resolved" =>
        LET t == trim(inputName)
        IN  IsBareName(t) =>
                IF t # <<>>
                THEN candidates = ThreeShapes(t)
                ELSE candidates = << <<".", "1", ".", "i", "n", "t">>,
                                     <<".", "i", "n", "t">> >>

C11_Witness ==
    /\ pc = "resolved"
    /\ inputName = <<" ", "A", ".", "B">>
    /\ candidates = << <<"A", ".", "B", ".", "1", ".", "i", "n", "t">>,
                       <<"A", ".", "B", ".", "i", "n", "t">>,
                       <<"A", ".", "B">> >>

\* C12: for every input whose trimmed form ends in .int, .mac or .inc in any
\* letter case, and not in .cls, the only candidate is the trimmed name.
C12_RoutineNameUnchanged ==
    pc = "resolved" =>
        LET t == trim(inputName)
        IN  (EndsInRoutineExtension(t) /\ ~EndsIn(t, <<".", "c", "l", "s">>)) =>
                candidates = <<t>>

C12_Witness ==
    /\ pc = "resolved"
    /\ inputName = <<"A", ".", "B", ".", "I", "N", "T", " ">>
    /\ candidates = << <<"A", ".", "B", ".", "I", "N", "T">> >>

\* C13: for every non-empty input, one of white space only included, the list
\* of candidates is not empty and holds no string twice.
C13_CandidatesNonEmptyDistinct ==
    (pc = "resolved" /\ inputName # <<>>) =>
        /\ Len(candidates) >= 1
        /\ \A i, j \in 1..Len(candidates) : i # j => candidates[i] # candidates[j]

C13_Witness ==
    /\ pc = "resolved"
    /\ inputName = <<" ">>
    /\ Len(candidates) = 2

-----------------------------------------------------------------------------
(* JSON values, as JSON.parse builds them, and the two other values a        *)
(* property read can give: undefined, and a member inherited from            *)
(* Object.prototype.  A value is a pair <<tag, content>>; the content of an   *)
(* object is the sequence of its own <<key, value>> pairs in insertion order. *)

JNull      == <<"null", 0>>
JUndefined == <<"undefined", 0>>
JFunction  == <<"function", 0>>
JBool(b)   == <<"bool", b>>
JNum(n)    == <<"num", n>>
JStr(str)  == <<"str", str>>
JArr(elts) == <<"arr", elts>>
JObj(prs)  == <<"obj", prs>>

\* Object.keys(r)
Keys(obj) == [i \in 1..Len(obj[2]) |-> obj[2][i][1]]

HasOwn(obj, key) == \E i \in 1..Len(obj[2]) : obj[2][i][1] = key

\* Object.prototype: what a read of "__proto__" gives on a parsed object that has
\* no own key of that name.
ObjectPrototype == JObj(<<>>)

\* Names of function members every object inherits (those the model uses).
InheritedFunctions == { <<"toString">>, <<"constructor">> }

\* r[key]: the own property, else the inherited member, else undefined.
Get(obj, key) ==
    IF HasOwn(obj, key)
    THEN obj[2][CHOOSE i \in 1..Len(obj[2]) : obj[2][i][1] = key][2]
    ELSE IF key \in InheritedFunctions THEN JFunction
    ELSE IF key = <<"__proto__">> THEN ObjectPrototype
    ELSE JUndefined

\* "key" in obj
In(key, obj) ==
    HasOwn(obj, key) \/ key \in InheritedFunctions \/ key = <<"__proto__">>

\* function isPlainObject(value)
isPlainObject(value) == value[1] = "obj"

\* Array.isArray(value)
IsArray(value) == value[1] = "arr"

\* The characters of a string inside a JSON text.
JsonChar(c) ==
    CASE c = "\"" -> <<"\\", "\"">>
      [] c = "\\" -> <<"\\", "\\">>
      [] c = "\n" -> <<"\\", "n">>
      [] c = "\r" -> <<"\\", "r">>
      [] OTHER    -> <<c>>

RECURSIVE JsonChars(_)
JsonChars(str) ==
    IF str = <<>> THEN <<>> ELSE JsonChar(Head(str)) \o JsonChars(Tail(str))

Quoted(str) == <<"\"">> \o JsonChars(str) \o <<"\"">>

\* parts.join(sep)
RECURSIVE Join(_, _)
Join(parts, sep) ==
    IF parts = <<>> THEN <<>>
    ELSE IF Len(parts) = 1 THEN parts[1]
    ELSE parts[1] \o sep \o Join(Tail(parts), sep)

\* String(n), String(b)
NumberText(n) == <<ToString(n)>>

BoolText(b) == IF b THEN <<"true">> ELSE <<"false">>

\* JSON.stringify(value) of a value that has a JSON text.
RECURSIVE Stringify(_)
Stringify(value) ==
    CASE value[1] = "null" -> <<"null">>
      [] value[1] = "bool" -> BoolText(value[2])
      [] value[1] = "num"  -> NumberText(value[2])
      [] value[1] = "str"  -> Quoted(value[2])
      [] value[1] = "arr"  ->
            <<"[">> \o Join([i \in 1..Len(value[2]) |-> Stringify(value[2][i])], <<",">>)
                \o <<"]">>
      [] value[1] = "obj"  ->
            <<"{">> \o Join([i \in 1..Len(value[2]) |->
                               Quoted(value[2][i][1]) \o <<":">> \o Stringify(value[2][i][2])],
                           <<",">>)
                \o <<"}">>

\* What a call gives that ends in a TypeError instead of a value.
TypeError == <<"TypeError">>

\* function toCellString(value): JSON.stringify gives undefined for a function,
\* and does not throw, so undefined is returned.
toCellString(value) ==
    IF value[1] \in {"null", "undefined"} THEN <<>>
    ELSE IF value[1] = "str" THEN value[2]
    ELSE IF value[1] = "num" THEN NumberText(value[2])
    ELSE IF value[1] = "bool" THEN BoolText(value[2])
    ELSE IF value[1] = "function" THEN None
    ELSE Stringify(value)

\* value.replaceAll("|", "\\|")
RECURSIVE EscapePipes(_)
EscapePipes(str) ==
    IF str = <<>> THEN <<>>
    ELSE IF Head(str) = "|" THEN <<"\\", "|">> \o EscapePipes(Tail(str))
    ELSE <<Head(str)>> \o EscapePipes(Tail(str))

\* .replaceAll("\r\n", "\n")
RECURSIVE NormalizeCrLf(_)
NormalizeCrLf(str) ==
    IF str = <<>> THEN <<>>
    ELSE IF Len(str) >= 2 /\ str[1] = "\r" /\ str[2] = "\n"
         THEN <<"\n">> \o NormalizeCrLf(SubSeq(str, 3, Len(str)))
    ELSE <<Head(str)>> \o NormalizeCrLf(Tail(str))

\* .replaceAll("\n", "<br>")
RECURSIVE BreakLines(_)
BreakLines(str) ==
    IF str = <<>> THEN <<>>
    ELSE IF Head(str) = "\n" THEN <<"<", "b", "r", ">">> \o BreakLines(Tail(str))
    ELSE <<Head(str)>> \o BreakLines(Tail(str))

\* function escapeMarkdownCell(value): a call with undefined ends in a TypeError.
escapeMarkdownCell(value) ==
    IF value = None THEN TypeError
    ELSE BreakLines(NormalizeCrLf(EscapePipes(value)))

-----------------------------------------------------------------------------
(* extractVersionInfo *)

Indent(d) == [i \in 1..(2 * d) |-> " "]

\* JSON.stringify(value, null, 2), at nesting depth d
RECURSIVE StringifyPretty(_, _)
StringifyPretty(value, d) ==
    CASE value[1] = "arr" /\ value[2] # <<>> ->
            <<"[", NL>>
                \o Join([i \in 1..Len(value[2]) |->
                           Indent(d + 1) \o StringifyPretty(value[2][i], d + 1)],
                        <<",", NL>>)
                \o <<NL>> \o Indent(d) \o <<"]">>
      [] value[1] = "obj" /\ value[2] # <<>> ->
            <<"{", NL>>
                \o Join([i \in 1..Len(value[2]) |->
                           Indent(d + 1) \o Quoted(value[2][i][1]) \o <<":", " ">>
                               \o StringifyPretty(value[2][i][2], d + 1)],
                        <<",", NL>>)
                \o <<NL>> \o Indent(d) \o <<"}">>
      [] OTHER -> Stringify(value)

\* The spellings the /i flag accepts for a key name (those the model uses).
KeySpellings(name) ==
    CASE name = "version"        -> { <<"version">>, <<"Version">>, <<"VERSION">> }
      [] name = "irisVersion"    -> { <<"irisVersion">>, <<"irisversion">> }
      [] name = "productVersion" -> { <<"productVersion">>, <<"productversion">> }

\* The characters of str before its first double quote: what ([^"]+) can take.
RECURSIVE UpToQuote(_)
UpToQuote(str) ==
    IF str = <<>> \/ Head(str) = "\"" THEN <<>>
    ELSE <<Head(str)>> \o UpToQuote(Tail(str))

\* The captures of /"<name>"\s*:\s*"([^"]+)"/i over JSON.stringify(value), in the
\* order of the text: the string values, not empty, of the keys so named.
RECURSIVE Captures(_, _)
Captures(value, name) ==
    CASE value[1] = "arr" ->
            Join([i \in 1..Len(value[2]) |-> Captures(value[2][i], name)], <<>>)
      [] value[1] = "obj" ->
            Join([i \in 1..Len(value[2]) |->
                    (IF /\ value[2][i][1] \in KeySpellings(name)
                        /\ value[2][i][2][1] = "str"
                        /\ UpToQuote(JsonChars(value[2][i][2][2])) # <<>>
                     THEN << UpToQuote(JsonChars(value[2][i][2][2])) >>
                     ELSE <<>>)
                    \o Captures(value[2][i][2], name)],
                 <<>>)
      [] OTHER -> <<>>

\* str.slice(0, n)
Slice(str, n) == SubSeq(str, 1, IF Len(str) < n THEN Len(str) ELSE n)

\* data.replace(/\s+/g, " ")
RECURSIVE CollapseSpace(_)
CollapseSpace(str) ==
    IF str = <<>> THEN <<>>
    ELSE IF Head(str) \in {" ", "\t", "\n", "\r"}
         THEN IF Len(str) >= 2 /\ str[2] \in {" ", "\t", "\n", "\r"}
              THEN CollapseSpace(Tail(str))
              ELSE <<" ">> \o CollapseSpace(Tail(str))
    ELSE <<Head(str)>> \o CollapseSpace(Tail(str))

\* function extractVersionInfo(data), for a value JSON.stringify accepts
extractVersionInfo(data) ==
    IF data[1] \in {"null", "undefined"} THEN <<"No response body.">>
    ELSE IF data[1] \in {"obj", "arr"}
    THEN LET m == IF Captures(data, "version") # <<>> THEN Captures(data, "version")
                  ELSE IF Captures(data, "irisVersion") # <<>>
                       THEN Captures(data, "irisVersion")
                  ELSE Captures(data, "productVersion")
         IN  IF m # <<>> THEN <<"version=">> \o m[1]
             ELSE Slice(StringifyPretty(data, 0), SnippetLimit)
    ELSE IF data[1] = "str"
    THEN LET snippet == Slice(CollapseSpace(data[2]), SnippetLimit)
         IN  IF Len(snippet) > 0 THEN snippet ELSE <<"Empty string body.">>
    ELSE IF data[1] = "num" THEN NumberText(data[2])
    ELSE BoolText(data[2])

-----------------------------------------------------------------------------
(* formatMarkdownTable.  A table is its header cells and its rows of cells, *)
(* each cell the text escapeMarkdownCell gave (or TypeError).               *)

\* for (const k of Object.keys(r)) if (!columns.includes(k)) columns.push(k)
RECURSIVE AddKeys(_, _)
AddKeys(columns, keys) ==
    IF keys = <<>> THEN columns
    ELSE AddKeys(IF Head(keys) \in Range(columns) THEN columns
                 ELSE Append(columns, Head(keys)),
                 Tail(keys))

RECURSIVE UnionKeys(_, _)
UnionKeys(columns, rows) ==
    IF rows = <<>> THEN columns
    ELSE UnionKeys(AddKeys(columns, Keys(Head(rows))), Tail(rows))

\* Lines 105-112.
Columns(rows) ==
    LET columns == UnionKeys(<<>>, rows)
    IN  IF Len(columns) = 0 THEN << <<"value">> >> ELSE columns

\* Lines 104-118: the array of plain objects.
ObjectTable(rows) ==
    LET columns == Columns(rows)
    IN  [header |-> [c \in 1..Len(columns) |-> escapeMarkdownCell(columns[c])],
         rows   |-> [r \in 1..Len(rows) |->
                       [c \in 1..Len(columns) |->
                          escapeMarkdownCell(toCellString(Get(rows[r], columns[c])))]]]

Max(a, b) == IF a > b THEN a ELSE b

\* rows.reduce((m, r) => Math.max(m, r.length), 0)
RECURSIVE MaxLen(_)
MaxLen(rows) ==
    IF rows = <<>> THEN 0 ELSE Max(Len(Head(rows)[2]), MaxLen(Tail(rows)))

\* A faulty variant: the first row is a header whatever its cells are.
HasHeaderRow_anyCells(rows) ==
    /\ Len(rows) >= 2
    /\ Len(rows[1][2]) > 0
    /\ Len(rows[1][2]) = Len(rows[2][2])

\* Lines 127-133: const hasHeader
HasHeaderRow(rows) ==
    /\ Len(rows) >= 2
    /\ Len(rows[1][2]) > 0
    /\ Len(rows[1][2]) = Len(rows[2][2])
    /\ \A i \in 1..Len(rows[1][2]) : rows[1][2][i][1] = "str"

\* String(v)
RECURSIVE StringOf(_)
StringOf(value) ==
    CASE value[1] = "str"  -> value[2]
      [] value[1] = "num"  -> NumberText(value[2])
      [] value[1] = "bool" -> BoolText(value[2])
      [] value[1] = "null" -> <<"null">>
      [] value[1] = "arr"  ->
            Join([i \in 1..Len(value[2]) |-> StringOf(value[2][i])], <<",">>)
      [] OTHER            -> <<"[object Object]">>

\* A faulty variant: the row is filled up to the width and never cut.
NormalizeRow_noCut(cells, width) ==
    [i \in 1..Max(width, Len(cells)) |-> IF i <= Len(cells) THEN cells[i] ELSE JStr(<<>>)]

\* Lines 140-144: pad with "" up to the width, then cut at the width.
NormalizeRow(cells, width) ==
    [i \in 1..width |-> IF i <= Len(cells) THEN cells[i] ELSE JStr(<<>>)]

\* Lines 124-150: the array of arrays.
ArrayTable(rows) ==
    LET hasHeader   == HasHeaderRow(rows)
        headerCells ==
            IF hasHeader
            THEN [i \in 1..Len(rows[1][2]) |-> escapeMarkdownCell(StringOf(rows[1][2][i]))]
            ELSE [i \in 1..Max(MaxLen(rows), 1) |-> <<"c", "o", "l", ToString(i)>>]
        dataRows    == IF hasHeader THEN Tail(rows) ELSE rows
    IN  [header |-> headerCells,
         rows   |-> [r \in 1..Len(dataRows) |->
                       LET cells == NormalizeRow(dataRows[r][2], Len(headerCells))
                       IN  [c \in 1..Len(cells) |->
                              escapeMarkdownCell(toCellString(cells[c]))]]]

\* Lines 155-158: every other array.
ScalarTable(content) ==
    [header |-> << <<"value">> >>,
     rows   |-> [r \in 1..Len(content) |->
                   << escapeMarkdownCell(toCellString(content[r])) >>]]

\* The first shape that fits, in the order of the code.
TableOf(content) ==
    IF \A i \in 1..Len(content) : isPlainObject(content[i]) THEN ObjectTable(content)
    ELSE IF \A i \in 1..Len(content) : IsArray(content[i]) THEN ArrayTable(content)
    ELSE ScalarTable(content)

\* `| ${cells.join(" | ")} |`
RowLine(cells) == <<"|", " ">> \o Join(cells, <<" ", "|", " ">>) \o <<" ", "|">>

SeparatorLine(n) == RowLine([i \in 1..n |-> <<"-", "-", "-">>])

\* [header, sep, body].filter(Boolean).join("\n")
RenderTable(table) ==
    LET body == JoinLines([r \in 1..Len(table.rows) |-> RowLine(table.rows[r])])
    IN  JoinLines(<<RowLine(table.header), SeparatorLine(Len(table.header))>>
                    \o (IF body = <<>> THEN <<>> ELSE <<body>>))

\* A call of escapeMarkdownCell on undefined ended the function.
TableThrows(table) ==
    \/ \E c \in 1..Len(table.header) : table.header[c] = TypeError
    \/ \E r \in 1..Len(table.rows) :
          \E c \in 1..Len(table.rows[r]) : table.rows[r][c] = TypeError

EmptyResult == <<"_(empty result)_">>

\* function formatMarkdownTable(content): its text, or TypeError when it throws.
formatMarkdownTable(content) ==
    IF ~IsArray(content)
    THEN <<"Unrecognized SQL response format:", NL>> \o extractVersionInfo(content)
    ELSE IF Len(content[2]) = 0 THEN EmptyResult
    ELSE IF TableThrows(TableOf(content[2])) THEN TypeError
    ELSE RenderTable(TableOf(content[2]))

\* A faulty variant: the top-level content is preferred to result.content.
extractQueryContent_topFirst(data) ==
    IF ~isPlainObject(data) THEN data
    ELSE IF In(<<"content">>, data) THEN Get(data, <<"content">>)
    ELSE IF isPlainObject(Get(data, <<"result">>))
            /\ In(<<"content">>, Get(data, <<"result">>))
         THEN Get(Get(data, <<"result">>), <<"content">>)
    ELSE data

\* function extractQueryContent(data)
extractQueryContent(data) ==
    IF ~isPlainObject(data) THEN data
    ELSE IF isPlainObject(Get(data, <<"result">>))
            /\ In(<<"content">>, Get(data, <<"result">>))
         THEN Get(Get(data, <<"result">>), <<"content">>)
    ELSE IF In(<<"content">>, data) THEN Get(data, <<"content">>)
    ELSE data

-----------------------------------------------------------------------------
(* The normalizer on its own: one call of formatMarkdownTable, of            *)
(* extractQueryContent or of escapeMarkdownCell on a value of a bounded set. *)

SeqsUpTo(S, n) == UNION { [1..k -> S] : k \in 0..n }

Key(name) == <<name>>

ScalarValues ==
    { JNull, JBool(TRUE), JNum(7), JStr(<<>>), JStr(<<"a">>),
      JStr(<<"x", "|", "\n", "y">>) }

ObjectRowValues ==
    { JObj(<<>>),
      JObj(<< <<Key("a"), JNum(1)>> >>),
      JObj(<< <<Key("b"), JStr(<<"x", "|", "y">>)>>, <<Key("a"), JNull>> >>),
      JObj(<< <<Key("c"), JArr(<<JNum(1)>>)>> >>),
      JObj(<< <<Key("toString"), JNum(1)>> >>),
      JObj(<< <<Key("__proto__"), JNum(1)>> >>) }

ArrayRowValues ==
    { JArr(<<>>),
      JArr(<<JStr(<<"h">>)>>),
      JArr(<<JStr(<<"h">>), JStr(<<"k", "|">>)>>),
      JArr(<<JNum(1), JStr(<<"k">>)>>),
      JArr(<<JStr(<<"x">>), JNull>>),
      JArr(<<JStr(<<"\\", "|", " ">>)>>),
      JArr(<<JNum(1), JNum(2), JNum(3)>>) }

MixedValues ==
    ScalarValues \cup { JObj(<< <<Key("a"), JNum(1)>> >>), JArr(<<JNum(1)>>) }

NonArrayValues ==
    ScalarValues
        \cup { JUndefined, JObj(<<>>),
               JObj(<< <<Key("a"), JNum(1)>> >>),
               JObj(<< <<Key("version"), JStr(<<"2024.1">>)>> >>) }

RenderInputs ==
    NonArrayValues
        \cup { JArr(rows) : rows \in SeqsUpTo(ObjectRowValues, MaxRows) }
        \cup { JArr(rows) : rows \in SeqsUpTo(ArrayRowValues, MaxRows) }
        \cup { JArr(rows) : rows \in SeqsUpTo(MixedValues, MaxRows) }

\* Payloads of a query response: with and without "result", "content".
Contents == { JArr(<<>>), JArr(<<JNum(1)>>), JStr(<<"a">>), JNull }

ResultMembers ==
    { JObj(<< <<Key("content"), c>> >>) : c \in Contents }
        \cup { JObj(<<>>), JObj(<< <<Key("a"), JNum(1)>> >>), JArr(<<JNum(1)>>), JNull,
               JStr(<<"content">>) }

Payloads ==
    ScalarValues \cup Contents
        \cup { JObj(<<>>), JObj(<< <<Key("status"), JNum(1)>> >>) }
        \cup { JObj(<< <<Key("result"), r>> >>) : r \in ResultMembers }
        \cup { JObj(<< <<Key("content"), c>> >>) : c \in Contents }
        \cup { JObj(<< <<Key("result"), r>>, <<Key("content"), c>> >>) :
                 r \in ResultMembers, c \in Contents }
        \cup { JObj(<< <<Key("content"), c>>, <<Key("result"), r>> >>) :
                 r \in ResultMembers, c \in Contents }

CellAlphabet == { "a", "|", "\\", "\r", "\n" }

CellValues == SeqsUpTo(CellAlphabet, MaxCellLen)

Render ==
    /\ pc = "idle"
    /\ \E content \in RenderInputs :
        /\ fnIn' = content
        /\ fnOut' = formatMarkdownTable(content)
    /\ pc' = "rendered"
    /\ UNCHANGED <<inputName, namespaceArg, candidates, ci, attempt, tried,
                   requests, slept, result, server>>

Extract ==
    /\ pc = "idle"
    /\ \E data \in Payloads :
        /\ fnIn' = data
        /\ fnOut' = extractQueryContent(data)
    /\ pc' = "extracted"
    /\ UNCHANGED <<inputName, namespaceArg, candidates, ci, attempt, tried,
                   requests, slept, result, server>>

EscapeCell ==
    /\ pc = "idle"
    /\ \E value \in CellValues :
        /\ fnIn' = value
        /\ fnOut' = escapeMarkdownCell(value)
    /\ pc' = "escaped"
    /\ UNCHANGED <<inputName, namespaceArg, candidates, ci, attempt, tried,
                   requests, slept, result, server>>

NextNormalizer == Render \/ Extract \/ EscapeCell

SpecNormalizer == Init /\ [][NextNormalizer]_vars

-----------------------------------------------------------------------------
(* Claims on the normalizer. *)

\* C16: formatMarkdownTable returns a string for every JSON value and never
\* raises; for the empty array the string is '_(empty result)_'; for every value
\* that is not an array the string is not empty.
C16_RenderIsTotal ==
    pc = "rendered" =>
        /\ fnOut # TypeError
        /\ fnIn = JArr(<<>>) => fnOut = EmptyResult
        /\ ~IsArray(fnIn) => Len(fnOut) > 0

\* The cell of a row under a column as the claim has it: the text of the row's
\* own value, and the empty cell when the row has no such key.
OwnCell(row, column) ==
    IF HasOwn(row, column)
    THEN escapeMarkdownCell(toCellString(Get(row, column)))
    ELSE <<>>

\* The union of the keys of the rows, in order of first appearance.
RECURSIVE FirstAppearances(_)
FirstAppearances(keys) ==
    IF keys = <<>> THEN <<>>
    ELSE LET before == FirstAppearances(SubSeq(keys, 1, Len(keys) - 1))
             last   == keys[Len(keys)]
         IN  IF last \in Range(before) THEN before ELSE Append(before, last)

RECURSIVE AllKeys(_)
AllKeys(rows) ==
    IF rows = <<>> THEN <<>> ELSE Keys(Head(rows)) \o AllKeys(Tail(rows))

IsObjectRows(content) ==
    /\ IsArray(content)
    /\ Len(content[2]) > 0
    /\ \A i \in 1..Len(content[2]) : isPlainObject(content[2][i])

\* C17: for a non-empty array of plain mappings the text is a header of the union
\* of the row keys in order of first appearance ('value' when no row has a key),
\* the separator, and one row per element in input order, where a key the row
\* does not have gives an empty cell.
C17_ObjectRowsTable ==
    (pc = "rendered" /\ IsObjectRows(fnIn)) =>
        LET rows    == fnIn[2]
            union   == FirstAppearances(AllKeys(rows))
            columns == IF union = <<>> THEN <<Key("value")>> ELSE union
        IN  fnOut = RenderTable(
                      [header |-> [c \in 1..Len(columns) |-> escapeMarkdownCell(columns[c])],
                       rows   |-> [r \in 1..Len(rows) |->
                                     [c \in 1..Len(columns) |-> OwnCell(rows[r], columns[c])]]])

IsArrayRows(content) ==
    /\ IsArray(content)
    /\ Len(content[2]) > 0
    /\ \A i \in 1..Len(content[2]) : IsArray(content[2][i])

\* Row 1 exists, rows 0 and 1 have the same length, not zero, and every cell of
\* row 0 is a string.
FirstRowIsHeader(rows) ==
    /\ Len(rows) >= 2
    /\ Len(rows[1][2]) = Len(rows[2][2])
    /\ Len(rows[1][2]) # 0
    /\ \A i \in 1..Len(rows[1][2]) : rows[1][2][i][1] = "str"

\* The line of a data row in a table of the given width: its cells, cut at the
\* width and filled up to it with empty cells.
DataLine(row, width) ==
    RowLine([c \in 1..width |->
               IF c <= Len(row[2]) THEN escapeMarkdownCell(toCellString(row[2][c]))
               ELSE <<>>])

LongestRow(rows) ==
    CHOOSE n \in { Len(rows[i][2]) : i \in 1..Len(rows) } :
        \A i \in 1..Len(rows) : Len(rows[i][2]) <= n

\* C18: for a non-empty array of arrays the header is row 0 and the data are rows
\* 1.. exactly when row 1 exists, rows 0 and 1 have the same non-zero length and
\* every cell of row 0 is a string; otherwise the header is col1..colN with
\* N = max(longest row length, 1) and every row, row 0 included, is data.
C18_ArrayRowsHeader ==
    (pc = "rendered" /\ IsArrayRows(fnIn)) =>
        LET rows  == fnIn[2]
            lines == SplitLines(fnOut)
        IN  IF FirstRowIsHeader(rows)
            THEN /\ Len(lines) = 2 + (Len(rows) - 1)
                 /\ lines[1] = RowLine([c \in 1..Len(rows[1][2]) |->
                                          escapeMarkdownCell(rows[1][2][c][2])])
                 /\ \A r \in 2..Len(rows) :
                        lines[r + 1] = DataLine(rows[r], Len(rows[1][2]))
            ELSE LET n == IF LongestRow(rows) > 1 THEN LongestRow(rows) ELSE 1
                 IN  /\ Len(lines) = 2 + Len(rows)
                     /\ lines[1] = RowLine([c \in 1..n |-> <<"c", "o", "l", ToString(c)>>])
                     /\ \A r \in 1..Len(rows) : lines[r + 2] = DataLine(rows[r], n)

C18_Witness ==
    /\ pc = "rendered"
    /\ fnIn = JArr(<< JArr(<<JStr(<<"h">>), JStr(<<"k", "|">>)>>),
                      JArr(<<JNum(1), JStr(<<"k">>)>>),
                      JArr(<<JNum(1), JNum(2), JNum(3)>>) >>)
    /\ SplitLines(fnOut)
         = << <<"|", " ", "h", " ", "|", " ", "k", "\\", "|", " ", "|">>,
              <<"|", " ", "-", "-", "-", " ", "|", " ", "-", "-", "-", " ", "|">>,
              <<"|", " ", "1", " ", "|", " ", "k", " ", "|">>,
              <<"|", " ", "1", " ", "|", " ", "2", " ", "|">> >>

\* The pipes of a cell text that delimit columns: a backslash escapes the
\* character after it, an escaped backslash included, so a pipe delimits unless
\* the backslash before it is itself unescaped.  escaped tells whether the
\* character before the text is an unescaped backslash.
RECURSIVE HasDelimiterPipe(_, _)
HasDelimiterPipe(text, escaped) ==
    IF text = <<>> THEN FALSE
    ELSE IF escaped THEN HasDelimiterPipe(Tail(text), FALSE)
    ELSE IF Head(text) = "|" THEN TRUE
    ELSE HasDelimiterPipe(Tail(text), Head(text) = "\\")

\* C19: the text escapeMarkdownCell gives for a cell holds no line feed and no
\* pipe that delimits columns.
C19_CellKeepsRow ==
    pc = "escaped" =>
        /\ "\n" \notin Range(fnOut)
        /\ ~HasDelimiterPipe(fnOut, FALSE)

\* C20: extractQueryContent gives the 'content' of 'result' when the payload is a
\* mapping whose 'result' is a mapping with a 'content' key; else the payload's
\* own 'content' when it has that key; else the payload, also when the payload
\* is no mapping.
C20_ContentPriority ==
    pc = "extracted" =>
        LET data == fnIn
        IN  IF isPlainObject(data) /\ HasOwn(data, Key("result"))
               /\ isPlainObject(Get(data, Key("result")))
               /\ HasOwn(Get(data, Key("result")), Key("content"))
            THEN fnOut = Get(Get(data, Key("result")), Key("content"))
            ELSE IF isPlainObject(data) /\ HasOwn(data, Key("content"))
            THEN fnOut = Get(data, Key("content"))
            ELSE fnOut = data

C20_Witness ==
    /\ pc = "extracted"
    /\ fnIn = JObj(<< <<Key("content"), JStr(<<"a">>)>>,
                      <<Key("result"), JObj(<< <<Key("content"), JArr(<<JNum(1)>>)>> >>)>> >>)
    /\ fnOut = JArr(<<JNum(1)>>)

-----------------------------------------------------------------------------
(* The process from its start: main, lines 280-418, with both tools. *)

Starting == [phase |-> "start", check |-> "none", tools |-> {}, connected |-> FALSE]

InitServer ==
    /\ pc = "idle"
    /\ inputName = <<>>
    /\ namespaceArg = None
    /\ candidates = <<>>
    /\ ci = 0
    /\ attempt = 0
    /\ tried = <<>>
    /\ requests = <<>>
    /\ slept = <<>>
    /\ result = NoResult
    /\ server = Starting
    /\ fnIn = None
    /\ fnOut = None

\* const env = parseEnv(): process.exit(1) when the environment is not valid.
ParseEnv ==
    /\ server.phase = "start"
    /\ \E valid \in BOOLEAN :
        server' = [server EXCEPT !.phase = IF valid THEN "verifying" ELSE "exited"]
    /\ UNCHANGED <<pc, inputName, namespaceArg, candidates, ci, attempt, tried,
                   requests, slept, result, fnIn, fnOut>>

\* A faulty variant: a failed check is logged and main goes on.
VerifyFails_goesOn ==
    /\ server.phase = "verifying"
    /\ \E err \in Errors :
        server' = [server EXCEPT !.check = "failed", !.tools = ToolNames,
                                 !.phase = "connecting"]
    /\ UNCHANGED <<pc, inputName, namespaceArg, candidates, ci, attempt, tried,
                   requests, slept, result, fnIn, fnOut>>

\* verifyConnection, lines 262-277: client.get("/api/atelier/") fails, whatever
\* the error, and the process exits.
VerifyFails ==
    /\ server.phase = "verifying"
    /\ \E err \in Errors :
        server' = [server EXCEPT !.check = "failed", !.phase = "exited"]
    /\ UNCHANGED <<pc, inputName, namespaceArg, candidates, ci, attempt, tried,
                   requests, slept, result, fnIn, fnOut>>

\* verifyConnection returns; main creates the server, registers the two tools
\* and calls server.connect (lines 284-414).
VerifySucceeds ==
    /\ server.phase = "verifying"
    /\ server' = [server EXCEPT !.check = "ok", !.tools = ToolNames,
                                !.phase = "connecting"]
    /\ UNCHANGED <<pc, inputName, namespaceArg, candidates, ci, attempt, tried,
                   requests, slept, result, fnIn, fnOut>>

\* await server.connect(transport) returns: the host can call the tools.
ConnectDone ==
    /\ server.phase = "connecting"
    /\ server' = [server EXCEPT !.connected = TRUE, !.phase = "serving"]
    /\ UNCHANGED <<pc, inputName, namespaceArg, candidates, ci, attempt, tried,
                   requests, slept, result, fnIn, fnOut>>

\* server.connect rejects: main().catch, lines 420-424, process.exit(1).
ConnectFails ==
    /\ server.phase = "connecting"
    /\ server' = [server EXCEPT !.phase = "exited"]
    /\ UNCHANGED <<pc, inputName, namespaceArg, candidates, ci, attempt, tried,
                   requests, slept, result, fnIn, fnOut>>

-----------------------------------------------------------------------------
(* The execute_iris_sql handler, lines 395-410, and executeSQL, lines 232-250. *)

\* The optional `namespace` argument of execute_iris_sql: z.string().min(1).
SqlNamespaceArgs == { None, <<"%", "S", "Y", "S">>, <<LoneSurrogate>> }

\* `/api/atelier/v1/${encodeURIComponent(ns)}/action/query`
SqlUrl(ns) == <<"/api/atelier/v1/">> \o encodeURIComponent(ns) \o <<"/action/query">>

\* Bodies of a 2xx answer to the query.
SqlBodies ==
    { JNull,
      JStr(<<"a">>),
      JArr(<< JObj(<< <<Key("a"), JNum(1)>> >>) >>),
      JObj(<< <<Key("result"), JObj(<< <<Key("content"), JArr(<<>>)>> >>)>> >>),
      JObj(<< <<Key("result"),
                JObj(<< <<Key("content"),
                          JArr(<< JObj(<< <<Key("a"), JStr(<<"x", "|", "y">>)>> >>),
                                  JObj(<< <<Key("b"), JNull>> >>) >>)>> >>)>> >>),
      JObj(<< <<Key("result"),
                JObj(<< <<Key("content"),
                          JArr(<< JObj(<<>>),
                                  JObj(<< <<Key("toString"), JNum(1)>> >>) >>)>> >>)>> >>) }

\* Line 247.
SqlHttpFailureText(err) ==
    <<"SQL execution failed. HTTP ", StatusText(err), NL>> \o Snippet

\* Line 249.
SqlFailureText == <<"SQL execution failed: ", "String(err)">>

\* The host calls execute_iris_sql: lines 396-398 and executeSQL up to
\* client.post.  encodeURIComponent is called inside the try of executeSQL, so
\* a namespace it rejects ends in the text of line 249.
InvokeSql ==
    /\ pc = "idle"
    /\ CanInvoke("execute_iris_sql")
    /\ \E ns \in SqlNamespaceArgs :
        /\ namespaceArg' = ns
        /\ IF IsWellFormed(ResolvedNamespace(ns))
           THEN /\ pc' = "sql-await"
                /\ requests' = Append(requests,
                                      [url |-> SqlUrl(ResolvedNamespace(ns)),
                                       candidate |-> <<>>, attempt |-> 0,
                                       resp |-> Pending])
                /\ UNCHANGED result
           ELSE /\ pc' = "done"
                /\ result' = Returned("sql-failed", SqlFailureText)
                /\ UNCHANGED requests
    /\ UNCHANGED <<inputName, candidates, ci, attempt, tried, slept, server,
                   fnIn, fnOut>>

\* client.post resolves: lines 240-241; a TypeError of formatMarkdownTable is
\* caught at line 242 and ends in the text of line 249.
SqlSucceeds ==
    /\ pc = "sql-await"
    /\ \E data \in SqlBodies :
        LET md == formatMarkdownTable(extractQueryContent(data))
        IN  /\ requests' = Answered(Ok(data))
            /\ fnIn' = data
            /\ fnOut' = md
            /\ result' = IF md = TypeError THEN Returned("sql-failed", SqlFailureText)
                         ELSE Returned("sql", md)
    /\ pc' = "done"
    /\ UNCHANGED <<inputName, namespaceArg, candidates, ci, attempt, tried, slept,
                   server>>

\* client.post rejects: lines 242-249.
SqlFails ==
    /\ pc = "sql-await"
    /\ \E err \in Errors :
        /\ requests' = Answered(err)
        /\ result' = IF isAxiosError(err)
                     THEN Returned("sql-failed", SqlHttpFailureText(err))
                     ELSE Returned("sql-failed", SqlFailureText)
    /\ pc' = "done"
    /\ UNCHANGED <<inputName, namespaceArg, candidates, ci, attempt, tried, slept,
                   server, fnIn, fnOut>>

NextServer ==
    \/ ParseEnv
    \/ VerifyFails
    \/ VerifySucceeds
    \/ ConnectDone
    \/ ConnectFails
    \/ InvokeSql
    \/ SqlSucceeds
    \/ SqlFails
    \/ Next

SpecServer == InitServer /\ [][NextServer]_vars

-----------------------------------------------------------------------------
(* Claims on the process and on both handlers. *)

\* C14: an invocation of get_iris_routine or of execute_iris_sql never ends in an
\* exception leaving the handler; when it has ended the handler has returned a
\* text block, and before that nothing has been returned.
C14_AlwaysOneTextBlock ==
    /\ pc # "threw"
    /\ pc = "done" => (result.kind # "none" /\ Len(result.text) > 0)
    /\ pc # "done" => result = NoResult

\* C15: until the connection check has succeeded no tool is registered and the
\* transport is not connected; a failed check ends the process; a tool is invoked
\* only in a run where the check succeeded.
C15_CheckBeforeTools ==
    /\ server.check # "ok" => (server.tools = {} /\ ~server.connected)
    /\ server.check = "failed" => server.phase = "exited"
    /\ pc # "idle" => server.check = "ok"

C15_Witness ==
    /\ server.check = "failed"
    /\ server.phase = "exited"
    /\ server.tools = {}
    /\ pc = "idle"

-----------------------------------------------------------------------------
(* Claims on the bounds of the walk and on the width of the tables. *)

\* The number of backoff waits made for a candidate name.
SleepsOf(c) == Cardinality({ n \in 1..Len(slept) : slept[n].candidate = c })

\* The first lookup of the candidate failed with HTTP 502, 503 or 504.
FirstLookupTransient(c) ==
    \E i \in Lookups :
        /\ requests[i].candidate = c
        /\ requests[i].attempt = 0
        /\ FailedWith(i, {502, 503, 504})

\* C21: each candidate is looked up at most 2 times; a second lookup of a
\* candidate comes directly after its first lookup failed with HTTP 502, 503 or
\* 504; a backoff wait lasts 250 ms and is made once for a candidate whose first
\* lookup failed so, before its second lookup, and for no other candidate.
C21_AtMostTwoLookups ==
    /\ \A k \in 1..Len(candidates) : LookupsOf(candidates[k]) <= 2
    /\ \A i, j \in Lookups :
        (i < j /\ requests[i].candidate = requests[j].candidate) =>
            /\ j = i + 1
            /\ requests[i].attempt = 0
            /\ requests[j].attempt = 1
            /\ FailedWith(i, {502, 503, 504})
    /\ \A n \in 1..Len(slept) :
        /\ slept[n].ms = 250
        /\ slept[n].candidate \in Range(candidates)
    /\ \A k \in 1..Len(candidates) :
        SleepsOf(candidates[k]) = IF FirstLookupTransient(candidates[k]) THEN 1 ELSE 0
    /\ pc = "backoff" =>
        /\ requests[Len(requests)].attempt = 0
        /\ slept[Len(slept)].candidate = requests[Len(requests)].candidate

C21_Witness ==
    /\ pc = "done"
    /\ Len(candidates) = 3
    /\ Len(requests) = 4
    /\ FailedWith(1, {503})
    /\ FailedWith(2, {404})
    /\ FailedWith(3, {502})
    /\ Succeeded(4)
    /\ Len(slept) = 2

\* The lookup in flight completes, with a response or with an error.
LookupCompletes ==
    \/ LookupSucceeds
    \/ NetworkMisconfig
    \/ CandidateNotFound
    \/ AuthFailure
    \/ TransientRetry
    \/ HttpFailure
    \/ NonAxiosFailure

\* The walk where every lookup completes and every sleep(250) ends.
SpecLive ==
    Init /\ [][Next]_vars /\ WF_vars(LookupCompletes) /\ WF_vars(BackoffElapsed)

\* C22: when every lookup completes, every invocation returns a result, and the
\* lookups of an invocation are never more than twice its candidates, so never
\* more than 6.
C22_ReturnsWithinSixLookups ==
    /\ [](Len(requests) <= 2 * Len(candidates) /\ Len(requests) <= 6)
    /\ (inputName # <<>>) ~> (pc = "done" /\ result.kind # "none")

\* The texts between the column delimiters " | " of the inside of a table line.
\* A pipe of a cell follows a backslash, so a pipe between two spaces is one the
\* row template wrote.
RECURSIVE SplitCells(_)
SplitCells(inside) ==
    IF \E i \in 1..(Len(inside) - 2) : SubSeq(inside, i, i + 2) = <<" ", "|", " ">>
    THEN LET i == CHOOSE k \in 1..(Len(inside) - 2) :
                     /\ SubSeq(inside, k, k + 2) = <<" ", "|", " ">>
                     /\ \A m \in 1..(k - 1) : SubSeq(inside, m, m + 2) # <<" ", "|", " ">>
         IN  <<SubSeq(inside, 1, i - 1)>> \o SplitCells(SubSeq(inside, i + 3, Len(inside)))
    ELSE <<inside>>

\* The cells of a line "| c1 | c2 |" of the text.
Cells(line) == SplitCells(SubSeq(line, 3, Len(line) - 2))

IsTableLine(line) ==
    /\ Len(line) >= 4
    /\ SubSeq(line, 1, 2) = <<"|", " ">>
    /\ SubSeq(line, Len(line) - 1, Len(line)) = <<" ", "|">>

\* The rows of an array of arrays that are data: all but row 0 when row 0 is the
\* header.
DataRows(rows) == IF FirstRowIsHeader(rows) THEN Tail(rows) ELSE rows

\* C23: in every table of the text every line is a row of cells, the separator
\* has a '---' for every cell of the header, and every data row has as many
\* cells as the header; a row of an array of arrays shows its cells up to the
\* width of the header and empty cells after its last.
C23_RowsHaveHeaderWidth ==
    (pc = "rendered" /\ IsArray(fnIn) /\ fnIn[2] # <<>> /\ fnOut # TypeError) =>
        LET lines == SplitLines(fnOut)
            width == Len(Cells(lines[1]))
        IN  /\ Len(lines) >= 3
            /\ \A n \in 1..Len(lines) :
                /\ IsTableLine(lines[n])
                /\ Len(Cells(lines[n])) = width
            /\ Cells(lines[2]) = [c \in 1..width |-> <<"-", "-", "-">>]
            /\ IsArrayRows(fnIn) =>
                LET data == DataRows(fnIn[2])
                IN  /\ Len(lines) = 2 + Len(data)
                    /\ \A r \in 1..Len(data) :
                        Cells(lines[r + 2]) =
                            [c \in 1..width |->
                               IF c <= Len(data[r][2])
                               THEN escapeMarkdownCell(toCellString(data[r][2][c]))
                               ELSE <<>>]

\* A header of two cells over a row of two cells and a row of one.
C23_Witness ==
    /\ pc = "rendered"
    /\ fnIn = JArr(<< JArr(<<JStr(<<"h">>), JStr(<<"k", "|">>)>>),
                      JArr(<<JStr(<<"x">>), JNull>>),
                      JArr(<<JStr(<<"\\", "|", " ">>)>>) >>)
    /\ Cells(SplitLines(fnOut)[1]) = << <<"h">>, <<"k", "\\", "|">> >>
    /\ Cells(SplitLines(fnOut)[3]) = << <<"x">>, <<>> >>
    /\ Cells(SplitLines(fnOut)[4]) = << <<"\\", "\\", "|", " ">>, <<>> >>

=============================================================================
